---- MODULE Spec2Model ----
(***************************************************************************)
(* Model of processor/handlers.js of sawtooth-car-transfer: the JSON       *)
(* transaction handler of the "transfer-chain" family.  Strings are TLA+   *)
(* strings, and the JavaScript string functions the handlers use (split,   *)
(* indexOf, substr, replace, slice) are computed on them character by      *)
(* character.  The state store is a function from the addresses that were *)
(* ever set to the bytes stored there; an address outside its domain is    *)
(* absent, and state.get yields undefined for it.                          *)
(***************************************************************************)
EXTENDS Integers, Sequences, FiniteSets, TLC

VARIABLES state, txn, outcome, catalogue

vars == <<state, txn, outcome, catalogue>>

(***************************************************************************)
(* Bounds of the model.                                                    *)
(***************************************************************************)
NumSigners == 2
NumDates == 2

SignerKeys == <<"02aaaaaaaa", "03bbbbbbbb", "02cccccccc", "03dddddddd">>
Signers == {SignerKeys[i] : i \in 1..NumSigners}

\* Values new Date() can yield while a transaction is processed.
Calendar == <<[yyyy |-> 2019, mm |-> 3, dd |-> 7],
              [yyyy |-> 2019, mm |-> 11, dd |-> 21],
              [yyyy |-> 2020, mm |-> 1, dd |-> 15]>>
Dates == {Calendar[i] : i \in 1..NumDates}

\* A JavaScript value that may be undefined: <<>> is undefined, <<v>> is v.
Undefined == <<>>
Def(v) == <<v>>

(***************************************************************************)
(* Asset descriptors submitted in payloads.                                *)
(***************************************************************************)
CarFull == "Registration-Number->R1, Color->red, Cost-Price->5, Selling-Price->7"
CarNoSale == "Registration-Number->R1, Color->blue, Cost-Price->5"
PriceFirst == "Cost-Price->5, Selling-Price->7"
PriceSeven == "Cost-Price->7, Selling-Price->7"

\* The descriptors one run submits: two descriptions of the car R1, or two
\* descriptors whose first field, hence registration number, is their cost
\* price, "Cost-Price->5" and "Cost-Price->7".  The handlers touch only the
\* addresses of registration numbers made of their payload, and the two
\* catalogues share none.
Catalogues == {{CarFull, CarNoSale}, {PriceFirst, PriceSeven}}
Descriptors == UNION Catalogues

Actions == {"create", "transfer", "accept", "reject"}
OtherActions == {"delete", "Create"}

(***************************************************************************)
(* JavaScript string functions.                                            *)
(***************************************************************************)
\* The first index from i on (0-based) at which t occurs in s, or -1.
RECURSIVE IndexFrom(_, _, _)
IndexFrom(s, t, i) ==
  IF i + Len(t) > Len(s) THEN -1
  ELSE IF SubSeq(s, i + 1, i + Len(t)) = t THEN i
  ELSE IndexFrom(s, t, i + 1)

\* String.prototype.indexOf: 0-based index of the first occurrence, or -1.
IndexOf(s, t) == IndexFrom(s, t, 0)

\* String.prototype.substr(start) for start >= 0.
Substr(s, start) == IF start >= Len(s) THEN "" ELSE SubSeq(s, start + 1, Len(s))

\* String.prototype.slice(0, length).
Slice(s, length) == IF length >= Len(s) THEN s ELSE SubSeq(s, 1, length)

\* String.prototype.split(separator) for a non-empty separator.
RECURSIVE Split(_, _)
Split(s, sep) ==
  LET i == IndexOf(s, sep)
  IN IF i = -1 THEN <<s>>
     ELSE <<Slice(s, i)>> \o Split(Substr(s, i + Len(sep)), sep)

\* String.prototype.replace(pattern, replacement) with a string pattern:
\* the first occurrence only (no "$" in any replacement used here).
Replace(s, pat, rep) ==
  LET i == IndexOf(s, pat)
  IN IF i = -1 THEN s ELSE Slice(s, i) \o rep \o Substr(s, i + Len(pat))

(***************************************************************************)
(* Encoding helpers and constants.                                         *)
(***************************************************************************)
\* createHash('sha512').update(key).digest('hex') on the keys of the model.
Sha512Hex(key) ==
  CASE key = "transfer-chain" -> "19d8329df9cd9207a387ccd4fe5180c29c2e2217b5b28a96fff62b4189a935efb038281af4115c30285af4a2cf871e6eec3dabac6a5d7e4f84f549e07c604fb5"
    [] key = "Registration-Number->R1" -> "53bafc2e50d792bd9d801eb7d8e08bfcc7f35a6af7a7beeaf5e0f6bccad9363cdbde9ae552aad87983a16fd8f15446ff268c0afeb4fed75e34d06361a5b9ec42"
    [] key = "Cost-Price->5" -> "4fbd481e07caecd3905ebacb4dd556efd09d978385d11d299d5dba5026aa1183aa2bacae12c63782f1799edf6bf413e3b08d6a28cf38130dd6b15ed717dbefd5"
    [] key = "Cost-Price->7" -> "ea1612c4cbb27dfbd44a8250ff968c9162bcd2da9f815882102bcef8c2558ba8fa908ad343d4029dda97075fcdd40e8fcbd6cde0c04ca39e03198537b8891db2"

getAddress(key, length) == Slice(Sha512Hex(key), length)

FAMILY == "transfer-chain"
PREFIX == getAddress(FAMILY, 6)
REG_NUM_INDEX == 0
SEPARATOR == ", "

\* dd and mm are padded to two digits.
TwoDigits(n) == IF n < 10 THEN "0" \o ToString(n) ELSE ToString(n)

\* now is the value of new Date() at the call.
updateDateOfSale(asset, now) ==
  LET currentDate == ToString(now.yyyy) \o "-" \o TwoDigits(now.mm)
                       \o "-" \o TwoDigits(now.dd)
  IN asset \o (SEPARATOR \o "Date-Of-Sale->" \o currentDate)

\* The values s.substr(start) can take.
Suffixes(s) == {Substr(s, start) : start \in 0..Len(s)}

\* The descriptors an accept makes of a descriptor, in terms of the string
\* functions alone.  They only widen the table SplitOf below: a text the
\* table lacks is split when it is met.
FieldAfter(d, field) ==
  Split(Substr(d, IndexOf(d, field) + Len(field) + 2), SEPARATOR)[1]
Repriced(d) ==
  Replace(Replace(d, "Cost-Price->" \o FieldAfter(d, "Cost-Price"),
                     "Cost-Price->" \o FieldAfter(d, "Selling-Price")),
          SEPARATOR \o "Selling-Price->" \o FieldAfter(d, "Selling-Price"), "")
Sold(d) == {updateDateOfSale(Repriced(d), now) : now \in Dates}

\* The texts the handlers split: the descriptors of the payloads, their
\* fields and their suffixes, and the descriptors an accept stores.
FieldsOf(d) == {Split(d, SEPARATOR)[i] : i \in 1..Len(Split(d, SEPARATOR))}
Texts == UNION {FieldsOf(d) \cup Suffixes(d) \cup Sold(d) : d \in Descriptors}

\* asset.split(SEPARATOR), computed once for these texts.
SplitOf == [s \in Texts |-> Split(s, SEPARATOR)] @@ <<>>

getAssetByIndex(asset, index) ==
  (IF asset \in DOMAIN SplitOf THEN SplitOf[asset]
   ELSE Split(asset, SEPARATOR))[index + 1]

getAssetByName(asset, field) ==
  LET data == Substr(asset, IndexOf(asset, field) + Len(field) + 2)
  IN getAssetByIndex(data, 0)

\* getAssetAddress with the default length of getAddress, 64.
getAssetAddressDefaultLength(name) == PREFIX \o "00" \o getAddress(name, 64)

getAssetAddress(name) == PREFIX \o "00" \o getAddress(name, 62)
getTransferAddress(asset) ==
  PREFIX \o "01" \o getAddress(getAssetByIndex(asset, REG_NUM_INDEX), 62)

\* updatePrice, as the code computes it.
updatePriceOf(asset) ==
  LET costPriceValue == getAssetByName(asset, "Cost-Price")
      sellPriceValue == getAssetByName(asset, "Selling-Price")
  IN Replace(Replace(asset, "Cost-Price->" \o costPriceValue,
                            "Cost-Price->" \o sellPriceValue),
             SEPARATOR \o "Selling-Price->" \o sellPriceValue, "")

\* updatePrice, computed once for the descriptors of the payloads.
PriceOf == [d \in Descriptors |-> updatePriceOf(d)] @@ <<>>

updatePrice(asset) ==
  IF asset \in DOMAIN PriceOf THEN PriceOf[asset] ELSE updatePriceOf(asset)

\* The property names of the records, in the order Object.keys(obj).sort()
\* puts them.
PropertyOrder == <<"asset", "name", "owner">>

RECURSIVE JoinComma(_)
JoinComma(members) ==
  IF members = <<>> THEN ""
  ELSE IF Len(members) = 1 THEN members[1]
  ELSE members[1] \o "," \o JoinComma(Tail(members))

\* encode: JSON.stringify(obj, Object.keys(obj).sort()) as the bytes of a
\* Buffer.  obj is a function from property names to values that may be
\* undefined; JSON.stringify leaves a property whose value is undefined out.
\* No string of the model holds a character JSON escapes.
encode(obj) ==
  LET keys == SelectSeq(PropertyOrder, LAMBDA k : k \in DOMAIN obj)
      present == SelectSeq(keys, LAMBDA k : obj[k] # Undefined)
      members == [i \in 1..Len(present) |->
                    "\"" \o present[i] \o "\":\"" \o obj[present[i]][1] \o "\""]
  IN "{" \o JoinComma(members) \o "}"

\* The members of a JSON object whose values are strings, read left to right.
RECURSIVE ParseMembers(_)
ParseMembers(s) ==
  IF s = "" THEN <<>>
  ELSE LET afterQuote == Substr(s, 1)
           keyEnd == IndexOf(afterQuote, "\"")
           key == Slice(afterQuote, keyEnd)
           afterColon == Substr(afterQuote, keyEnd + 3)
           valueEnd == IndexOf(afterColon, "\"")
           value == Slice(afterColon, valueEnd)
           rest == Substr(afterColon, valueEnd + 1)
       IN <<(<<key, value>>)>> \o
          (IF rest = "" THEN <<>> ELSE ParseMembers(Substr(rest, 1)))

\* JSON.parse(text) of the text of an object that encode wrote.
JSONparse(text) ==
  LET members == ParseMembers(SubSeq(text, 2, Len(text) - 1))
  IN [k \in {members[i][1] : i \in 1..Len(members)} |->
        (CHOOSE m \in {members[i] : i \in 1..Len(members)} : m[1] = k)[2]]

\* The owner of a payload: a public key, or left out.
Owners == {Undefined} \cup {Def(s) : s \in Signers}

\* The records the handlers write: an asset record names a descriptor or
\* what an accept made of it, a transfer record a descriptor.
Updated == {updateDateOfSale(updatePrice(d), now) : d \in Descriptors, now \in Dates}
Records ==
  {[name |-> Def(d), owner |-> o] : d \in Descriptors \cup Updated, o \in Owners}
    \cup {[asset |-> Def(d), owner |-> o] : d \in Descriptors, o \in Owners}

\* JSON.parse, computed once for the records the handlers write.
ParseOf == [text \in {encode(r) : r \in Records} |-> JSONparse(text)] @@ <<>>

\* decode: JSON.parse(buf.toString()) of a non-empty buffer.
decode(buf) == IF buf \in DOMAIN ParseOf THEN ParseOf[buf] ELSE JSONparse(buf)

\* obj.name for a decoded object: undefined when the property is missing.
Prop(obj, name) == IF name \in DOMAIN obj THEN Def(obj[name]) ELSE Undefined

\* What decode(entry) throws, "" when it returns: entry undefined has no
\* toString (TypeError), and JSON.parse of the empty text is a SyntaxError.
decodeThrows(entry) ==
  IF entry = Undefined THEN "TypeError"
  ELSE IF Len(entry[1]) = 0 THEN "SyntaxError"
  ELSE ""

(***************************************************************************)
(* The state store: state.get and state.set.                               *)
(***************************************************************************)
\* Buffer(0)
EmptyBuffer == ""

\* state.get(addresses): the entries of the addresses, undefined when absent.
stateGet(store, addresses) ==
  [a \in {addresses[i] : i \in 1..Len(addresses)} |->
     IF a \in DOMAIN store THEN Def(store[a]) ELSE Undefined]

\* state.set(updates): all the addresses of one call are written together.
stateSet(store, updates) ==
  [a \in DOMAIN store \cup DOMAIN updates |->
     IF a \in DOMAIN updates THEN updates[a] ELSE store[a]]

RECURSIVE applySets(_, _)
applySets(store, sets) ==
  IF sets = <<>> THEN store
  ELSE applySets(stateSet(store, Head(sets)), Tail(sets))

\* The outcome of a handler: how its promise settles, and the calls it made
\* on the state store before it settled.
Resolved(gets, sets) ==
  [status |-> "ok", message |-> "", gets |-> gets, sets |-> sets]
Rejected(error, message, gets) ==
  [status |-> error, message |-> message, gets |-> gets, sets |-> <<>>]
InvalidTransaction(message, gets) ==
  Rejected("InvalidTransaction", message, gets)

(***************************************************************************)
(* The handlers.                                                           *)
(***************************************************************************)
\* createAsset without the test of the current entry.
createAssetNoCheck(asset, owner, store) ==
  LET address == getAssetAddress(getAssetByIndex(asset, REG_NUM_INDEX))
  IN Resolved(<<(<<address>>)>>,
              <<(address :> encode([name |-> Def(asset), owner |-> Def(owner)]))>>)

\* Add a new asset to state
createAsset(asset, owner, store) ==
  LET address == getAssetAddress(getAssetByIndex(asset, REG_NUM_INDEX))
      entry == stateGet(store, <<address>>)[address]
  IN IF entry # Undefined /\ Len(entry[1]) > 0
     THEN InvalidTransaction("Asset name in use", <<(<<address>>)>>)
     ELSE Resolved(<<(<<address>>)>>,
                   <<(address :> encode([name |-> Def(asset), owner |-> Def(owner)]))>>)

\* transferAsset without the test of the signer.
transferAssetAnySigner(asset, owner, signer, store) ==
  LET address == getTransferAddress(getAssetByIndex(asset, REG_NUM_INDEX))
      assetAddress == getAssetAddress(getAssetByIndex(asset, REG_NUM_INDEX))
      entry == stateGet(store, <<assetAddress>>)[assetAddress]
  IN IF entry = Undefined \/ Len(entry[1]) = 0
     THEN InvalidTransaction("Asset does not exist", <<(<<assetAddress>>)>>)
     ELSE Resolved(<<(<<assetAddress>>)>>,
                   <<(address :> encode([asset |-> Def(asset), owner |-> owner]))>>)

\* transferAsset decoding the entry without testing that there is one.
transferAssetNoExistenceCheck(asset, owner, signer, store) ==
  LET address == getTransferAddress(getAssetByIndex(asset, REG_NUM_INDEX))
      assetAddress == getAssetAddress(getAssetByIndex(asset, REG_NUM_INDEX))
      entry == stateGet(store, <<assetAddress>>)[assetAddress]
  IN IF decodeThrows(entry) # ""
     THEN Rejected(decodeThrows(entry), "", <<(<<assetAddress>>)>>)
     ELSE IF Def(signer) # Prop(decode(entry[1]), "owner")
     THEN InvalidTransaction("Only an Asset's owner may transfer it",
                             <<(<<assetAddress>>)>>)
     ELSE Resolved(<<(<<assetAddress>>)>>,
                   <<(address :> encode([asset |-> Def(asset), owner |-> owner]))>>)

\* transferAsset setting the transfer record before it tests the signer: a
\* transfer that fails with NotOwner has written.
transferAssetSetsFirst(asset, owner, signer, store) ==
  LET address == getTransferAddress(getAssetByIndex(asset, REG_NUM_INDEX))
      assetAddress == getAssetAddress(getAssetByIndex(asset, REG_NUM_INDEX))
      entry == stateGet(store, <<assetAddress>>)[assetAddress]
      sets == <<(address :> encode([asset |-> Def(asset), owner |-> owner]))>>
  IN IF entry = Undefined \/ Len(entry[1]) = 0
     THEN InvalidTransaction("Asset does not exist", <<(<<assetAddress>>)>>)
     ELSE IF Def(signer) # Prop(decode(entry[1]), "owner")
     THEN [InvalidTransaction("Only an Asset's owner may transfer it",
                              <<(<<assetAddress>>)>>) EXCEPT !.sets = sets]
     ELSE Resolved(<<(<<assetAddress>>)>>, sets)

\* transferAsset refusing an asset that is being transferred already: it
\* reads the transfer address too.
transferAssetIfNotPending(asset, owner, signer, store) ==
  LET address == getTransferAddress(getAssetByIndex(asset, REG_NUM_INDEX))
      assetAddress == getAssetAddress(getAssetByIndex(asset, REG_NUM_INDEX))
      gets == <<(<<assetAddress, address>>)>>
      entry == stateGet(store, <<assetAddress, address>>)[assetAddress]
      pending == stateGet(store, <<assetAddress, address>>)[address]
  IN IF entry = Undefined \/ Len(entry[1]) = 0
     THEN InvalidTransaction("Asset does not exist", gets)
     ELSE IF Def(signer) # Prop(decode(entry[1]), "owner")
     THEN InvalidTransaction("Only an Asset's owner may transfer it", gets)
     ELSE IF pending # Undefined /\ Len(pending[1]) > 0
     THEN InvalidTransaction("Asset is being transfered", gets)
     ELSE Resolved(gets,
                   <<(address :> encode([asset |-> Def(asset), owner |-> owner]))>>)

\* transferAsset testing the owner only when there is an asset record: an
\* asset that was never created can be transferred.
transferAssetOfMissing(asset, owner, signer, store) ==
  LET address == getTransferAddress(getAssetByIndex(asset, REG_NUM_INDEX))
      assetAddress == getAssetAddress(getAssetByIndex(asset, REG_NUM_INDEX))
      entry == stateGet(store, <<assetAddress>>)[assetAddress]
  IN IF /\ entry # Undefined
        /\ Len(entry[1]) > 0
        /\ Def(signer) # Prop(decode(entry[1]), "owner")
     THEN InvalidTransaction("Only an Asset's owner may transfer it",
                             <<(<<assetAddress>>)>>)
     ELSE Resolved(<<(<<assetAddress>>)>>,
                   <<(address :> encode([asset |-> Def(asset), owner |-> owner]))>>)

\* Add a new transfer to state
transferAsset(asset, owner, signer, store) ==
  LET address == getTransferAddress(getAssetByIndex(asset, REG_NUM_INDEX))
      assetAddress == getAssetAddress(getAssetByIndex(asset, REG_NUM_INDEX))
      entry == stateGet(store, <<assetAddress>>)[assetAddress]
  IN IF entry = Undefined \/ Len(entry[1]) = 0
     THEN InvalidTransaction("Asset does not exist", <<(<<assetAddress>>)>>)
     ELSE IF Def(signer) # Prop(decode(entry[1]), "owner")
     THEN InvalidTransaction("Only an Asset's owner may transfer it",
                             <<(<<assetAddress>>)>>)
     ELSE Resolved(<<(<<assetAddress>>)>>,
                   <<(address :> encode([asset |-> Def(asset), owner |-> owner]))>>)

\* acceptTransfer without the test of the signer.
acceptTransferAnySigner(asset, signer, store, now) ==
  LET address == getTransferAddress(getAssetByIndex(asset, REG_NUM_INDEX))
      gets == <<(<<address>>)>>
      entry == stateGet(store, <<address>>)[address]
  IN IF decodeThrows(entry) = "TypeError"
     THEN Rejected("TypeError", "Cannot read property 'toString' of undefined", gets)
     ELSE IF decodeThrows(entry) = "SyntaxError"
     THEN Rejected("SyntaxError", "Unexpected end of JSON input", gets)
     ELSE LET updated == updateDateOfSale(updatePrice(asset), now)
              assetAddress == getAssetAddress(getAssetByIndex(updated, REG_NUM_INDEX))
          IN Resolved(gets,
               <<((assetAddress :> encode([name |-> Def(updated), owner |-> Def(signer)]))
                  @@ (address :> EmptyBuffer))>>)

\* acceptTransfer leaving the transfer where it is: only the asset record
\* is written.
acceptTransferKeepsSlot(asset, signer, store, now) ==
  LET address == getTransferAddress(getAssetByIndex(asset, REG_NUM_INDEX))
      gets == <<(<<address>>)>>
      entry == stateGet(store, <<address>>)[address]
  IN IF decodeThrows(entry) = "TypeError"
     THEN Rejected("TypeError", "Cannot read property 'toString' of undefined", gets)
     ELSE IF decodeThrows(entry) = "SyntaxError"
     THEN Rejected("SyntaxError", "Unexpected end of JSON input", gets)
     ELSE IF Def(signer) # Prop(decode(entry[1]), "owner")
     THEN InvalidTransaction("Transfers can only be accepted by the new owner", gets)
     ELSE LET updated == updateDateOfSale(updatePrice(asset), now)
              assetAddress == getAssetAddress(getAssetByIndex(updated, REG_NUM_INDEX))
          IN Resolved(gets,
               <<(assetAddress :> encode([name |-> Def(updated), owner |-> Def(signer)]))>>)

\* Accept a transfer, clearing it and changing asset ownership.  The owner
\* of the entry is logged, and so decoded, before the entry is tested.
acceptTransfer(asset, signer, store, now) ==
  LET address == getTransferAddress(getAssetByIndex(asset, REG_NUM_INDEX))
      gets == <<(<<address>>)>>
      entry == stateGet(store, <<address>>)[address]
  IN IF decodeThrows(entry) = "TypeError"
     THEN Rejected("TypeError", "Cannot read property 'toString' of undefined", gets)
     ELSE IF decodeThrows(entry) = "SyntaxError"
     THEN Rejected("SyntaxError", "Unexpected end of JSON input", gets)
     ELSE IF entry = Undefined \/ Len(entry[1]) = 0
     THEN InvalidTransaction("Asset is not being transfered", gets)
     ELSE IF Def(signer) # Prop(decode(entry[1]), "owner")
     THEN InvalidTransaction("Transfers can only be accepted by the new owner", gets)
     ELSE LET updated == updateDateOfSale(updatePrice(asset), now)
              assetAddress == getAssetAddress(getAssetByIndex(updated, REG_NUM_INDEX))
          IN Resolved(gets,
               <<((assetAddress :> encode([name |-> Def(updated), owner |-> Def(signer)]))
                  @@ (address :> EmptyBuffer))>>)

\* rejectTransfer writing, as acceptTransfer does, an asset record owned by
\* the signer.
rejectTransferTakesAsset(asset, signer, store) ==
  LET address == getTransferAddress(getAssetByIndex(asset, REG_NUM_INDEX))
      gets == <<(<<address>>)>>
      entry == stateGet(store, <<address>>)[address]
  IN IF entry = Undefined \/ Len(entry[1]) = 0
     THEN InvalidTransaction("Asset is not being transfered", gets)
     ELSE IF Def(signer) # Prop(decode(entry[1]), "owner")
     THEN InvalidTransaction("Transfers can only be rejected by the potential new owner", gets)
     ELSE Resolved(gets,
            <<((getAssetAddress(getAssetByIndex(asset, REG_NUM_INDEX))
                  :> encode([name |-> Def(asset), owner |-> Def(signer)]))
               @@ (address :> EmptyBuffer))>>)

\* rejectTransfer decoding the entry, as acceptTransfer does, before it
\* tests that there is one.
rejectTransferDecodesFirst(asset, signer, store) ==
  LET address == getTransferAddress(getAssetByIndex(asset, REG_NUM_INDEX))
      gets == <<(<<address>>)>>
      entry == stateGet(store, <<address>>)[address]
  IN IF decodeThrows(entry) = "TypeError"
     THEN Rejected("TypeError", "Cannot read property 'toString' of undefined", gets)
     ELSE IF decodeThrows(entry) = "SyntaxError"
     THEN Rejected("SyntaxError", "Unexpected end of JSON input", gets)
     ELSE IF Def(signer) # Prop(decode(entry[1]), "owner")
     THEN InvalidTransaction("Transfers can only be rejected by the potential new owner", gets)
     ELSE Resolved(gets, <<(address :> EmptyBuffer)>>)

\* rejectTransfer emptying the asset address along with the transfer
\* address.
rejectTransferDeletesAsset(asset, signer, store) ==
  LET address == getTransferAddress(getAssetByIndex(asset, REG_NUM_INDEX))
      gets == <<(<<address>>)>>
      entry == stateGet(store, <<address>>)[address]
  IN IF entry = Undefined \/ Len(entry[1]) = 0
     THEN InvalidTransaction("Asset is not being transfered", gets)
     ELSE IF Def(signer) # Prop(decode(entry[1]), "owner")
     THEN InvalidTransaction("Transfers can only be rejected by the potential new owner", gets)
     ELSE Resolved(gets,
            <<((getAssetAddress(getAssetByIndex(asset, REG_NUM_INDEX)) :> EmptyBuffer)
               @@ (address :> EmptyBuffer))>>)

\* Reject a transfer
rejectTransfer(asset, signer, store) ==
  LET address == getTransferAddress(getAssetByIndex(asset, REG_NUM_INDEX))
      gets == <<(<<address>>)>>
      entry == stateGet(store, <<address>>)[address]
  IN IF entry = Undefined \/ Len(entry[1]) = 0
     THEN InvalidTransaction("Asset is not being transfered", gets)
     ELSE IF Def(signer) # Prop(decode(entry[1]), "owner")
     THEN InvalidTransaction("Transfers can only be rejected by the potential new owner", gets)
     ELSE Resolved(gets, <<(address :> EmptyBuffer)>>)

\* apply taking "Create" for "create".
applyIgnoringCase(t, store, now) ==
  IF t.action \in {"create", "Create"}
  THEN [handler |-> "createAsset"] @@ createAsset(t.asset, t.signer, store)
  ELSE IF t.action = "transfer"
  THEN [handler |-> "transferAsset"] @@ transferAsset(t.asset, t.owner, t.signer, store)
  ELSE IF t.action = "accept"
  THEN [handler |-> "acceptTransfer"] @@ acceptTransfer(t.asset, t.signer, store, now)
  ELSE IF t.action = "reject"
  THEN [handler |-> "rejectTransfer"] @@ rejectTransfer(t.asset, t.signer, store)
  ELSE [handler |-> "none"] @@
       InvalidTransaction("Action must be \"create\", \"transfer\", \"accept\", or \"reject\"", <<>>)

\* JSONHandler.apply: the handler the action selects, and its outcome.
apply(t, store, now) ==
  IF t.action = "create"
  THEN [handler |-> "createAsset"] @@ createAsset(t.asset, t.signer, store)
  ELSE IF t.action = "transfer"
  THEN [handler |-> "transferAsset"] @@ transferAsset(t.asset, t.owner, t.signer, store)
  ELSE IF t.action = "accept"
  THEN [handler |-> "acceptTransfer"] @@ acceptTransfer(t.asset, t.signer, store, now)
  ELSE IF t.action = "reject"
  THEN [handler |-> "rejectTransfer"] @@ rejectTransfer(t.asset, t.signer, store)
  ELSE [handler |-> "none"] @@
       InvalidTransaction("Action must be \"create\", \"transfer\", \"accept\", or \"reject\"", <<>>)

(***************************************************************************)
(* The state machine: one transaction is applied at a time.  txn is the    *)
(* last transaction, outcome how it ended, catalogue the descriptors the   *)
(* payloads of the run are drawn from.                                     *)
(***************************************************************************)
NoTxn == [action |-> "", asset |-> "", owner |-> Undefined, signer |-> ""]
NoOutcome == [handler |-> "none", status |-> "", message |-> "", gets |-> <<>>, sets |-> <<>>]

Init ==
  /\ state = <<>>
  /\ txn = NoTxn
  /\ outcome = NoOutcome
  /\ catalogue \in Catalogues

\* The clock of a handler that never reads it.
NotRead == [yyyy |-> 0, mm |-> 0, dd |-> 0]

Handle(t, now) ==
  /\ txn' = t
  /\ outcome' = apply(t, state, now)
  /\ state' = applySets(state, outcome'.sets)
  /\ UNCHANGED catalogue

\* The payloads of an action; only a transfer names an owner.
Payload(action) ==
  {[action |-> action, asset |-> d, owner |-> o, signer |-> s] :
     d \in catalogue, s \in Signers,
     o \in IF action = "transfer" THEN Owners ELSE {Undefined}}

Create == \E t \in Payload("create") : Handle(t, NotRead)
Transfer == \E t \in Payload("transfer") : Handle(t, NotRead)
Accept == \E t \in Payload("accept"), now \in Dates : Handle(t, now)
Reject == \E t \in Payload("reject") : Handle(t, NotRead)
Other == \E a \in OtherActions : \E t \in Payload(a) : Handle(t, NotRead)

Next == Create \/ Transfer \/ Accept \/ Reject \/ Other

Spec == Init /\ [][Next]_vars

(***************************************************************************)
(* Vocabulary of the properties.                                           *)
(***************************************************************************)
\* The failures of the specification, by the message the handlers throw.
DuplicateAsset == "Asset name in use"
AssetNotFound == "Asset does not exist"
NotOwner == "Only an Asset's owner may transfer it"
NoPendingTransfer == "Asset is not being transfered"
NotProposedOwnerAccept == "Transfers can only be accepted by the new owner"
NotProposedOwnerReject == "Transfers can only be rejected by the potential new owner"
UnknownAction == "Action must be \"create\", \"transfer\", \"accept\", or \"reject\""

FailsWith(r, message) == r.status = "InvalidTransaction" /\ r.message = message

\* The addresses of the registration number of a descriptor.
AssetAddressOf(d) == getAssetAddress(getAssetByIndex(d, REG_NUM_INDEX))
TransferAddressOf(d) == getTransferAddress(getAssetByIndex(d, REG_NUM_INDEX))

\* A record is stored at the address: the value is present and not empty.
Present(store, a) == a \in DOMAIN store /\ Len(store[a]) > 0

\* The owner of the record at an address that holds one.
OwnerAt(store, a) == Prop(decode(store[a]), "owner")

\* The value at an address is the same in both stores (absent in both, or
\* the same bytes).
SameAt(s1, s2, a) ==
  /\ (a \in DOMAIN s1) = (a \in DOMAIN s2)
  /\ a \in DOMAIN s1 => s1[a] = s2[a]

\* An asset address: the tag after the prefix is "00".
IsAssetAddress(a) == SubSeq(a, 7, 8) = "00"

\* A transfer address: the tag after the prefix is "01".
IsTransferAddress(a) == SubSeq(a, 7, 8) = "01"

\* The descriptors of the run with the registration number of d.
SameRegistration(d) ==
  {e \in catalogue : TransferAddressOf(e) = TransferAddressOf(d)}

\* An accept or a reject of the descriptor, signed by the signer.
Request(action, d, signer) ==
  [action |-> action, asset |-> d, owner |-> Undefined, signer |-> signer]

\* The registration number of a descriptor.
RegistrationNumber(d) == getAssetByIndex(d, REG_NUM_INDEX)

\* The layout of the two addresses of a registration number: the family
\* prefix, the tag, 62 characters of the digest of the registration number,
\* length characters in all.
Layout(r, length) ==
  /\ Len(PREFIX) = 6
  /\ SubSeq(getAssetAddress(r), 1, 6) = PREFIX
  /\ SubSeq(getTransferAddress(r), 1, 6) = PREFIX
  /\ SubSeq(getAssetAddress(r), 7, 8) = "00"
  /\ SubSeq(getTransferAddress(r), 7, 8) = "01"
  /\ getAssetAddress(r) # getTransferAddress(r)
  /\ SubSeq(getAssetAddress(r), 9, Len(getAssetAddress(r)))
       = SubSeq(Sha512Hex(r), 1, 62)
  /\ SubSeq(getTransferAddress(r), 9, Len(getTransferAddress(r)))
       = SubSeq(Sha512Hex(r), 1, 62)
  /\ Len(getAssetAddress(r)) = length
  /\ Len(getTransferAddress(r)) = length

\* The asset address of the registration number of a transfer address: the
\* same address with the tag "00".
AssetAddressFor(a) == SubSeq(a, 1, 6) \o "00" \o SubSeq(a, 9, Len(a))

\* The transfer address of the registration number of an asset address: the
\* same address with the tag "01".
TransferAddressFor(a) == SubSeq(a, 1, 6) \o "01" \o SubSeq(a, 9, Len(a))

\* The last transaction succeeded, and it was one of these actions on the
\* registration number whose transfer address is a.
Succeeded(t, r, actions, a) ==
  /\ r.status = "ok"
  /\ t.action \in actions
  /\ TransferAddressOf(t.asset) = a

(***************************************************************************)
(* C1  Create uniqueness: when a record is stored at the asset address of  *)
(* the registration number of the descriptor, a create fails with          *)
(* DuplicateAsset whoever signs it, and the store (hence the record and    *)
(* its owner) is unchanged.                                                *)
(***************************************************************************)
CreateUniqueness ==
  [][(txn'.action = "create" /\ Present(state, AssetAddressOf(txn'.asset)))
       => /\ FailsWith(outcome', DuplicateAsset)
          /\ outcome'.sets = <<>>
          /\ state' = state
          /\ OwnerAt(state', AssetAddressOf(txn'.asset))
               = OwnerAt(state, AssetAddressOf(txn'.asset))]_vars

\* A create by a signer other than the owner of the stored record failed.
CreateUniquenessWitness ==
  /\ txn.action = "create"
  /\ FailsWith(outcome, DuplicateAsset)
  /\ Present(state, AssetAddressOf(txn.asset))
  /\ OwnerAt(state, AssetAddressOf(txn.asset)) # Def(txn.signer)

(***************************************************************************)
(* C2  Ownership gate: a transfer of an existing asset signed by anyone    *)
(* but its recorded owner fails with NotOwner, and nothing is written: the *)
(* transfer address holds what it held.                                    *)
(***************************************************************************)
OwnershipGate ==
  [][(/\ txn'.action = "transfer"
      /\ Present(state, AssetAddressOf(txn'.asset))
      /\ OwnerAt(state, AssetAddressOf(txn'.asset)) # Def(txn'.signer))
       => /\ FailsWith(outcome', NotOwner)
          /\ outcome'.sets = <<>>
          /\ SameAt(state, state', TransferAddressOf(txn'.asset))
          /\ state' = state]_vars

OwnershipGateWitness ==
  /\ txn.action = "transfer"
  /\ FailsWith(outcome, NotOwner)
  /\ Present(state, AssetAddressOf(txn.asset))
  /\ OwnerAt(state, AssetAddressOf(txn.asset)) # Def(txn.signer)

(***************************************************************************)
(* C3  Accept round trip, as claimed: after a successful accept of the     *)
(* descriptor by B (which a create and a transfer to B precede), the asset *)
(* record of the registration number of the descriptor has owner B and the *)
(* transfer slot is empty.                                                 *)
(***************************************************************************)
AcceptRoundTrip ==
  (txn.action = "accept" /\ outcome.status = "ok")
    => /\ Present(state, AssetAddressOf(txn.asset))
       /\ OwnerAt(state, AssetAddressOf(txn.asset)) = Def(txn.signer)
       /\ ~Present(state, TransferAddressOf(txn.asset))

(***************************************************************************)
(* C4  Reject leaves ownership unchanged: a successful reject, which only  *)
(* the proposed owner obtains, empties the transfer slot and changes no    *)
(* other address: the asset record is the one of before.                   *)
(***************************************************************************)
RejectKeepsOwnership ==
  [][(txn'.action = "reject" /\ outcome'.status = "ok")
       => /\ OwnerAt(state, TransferAddressOf(txn'.asset)) = Def(txn'.signer)
          /\ TransferAddressOf(txn'.asset) \in DOMAIN state'
          /\ state'[TransferAddressOf(txn'.asset)] = EmptyBuffer
          /\ SameAt(state, state', AssetAddressOf(txn'.asset))
          /\ \A a \in (DOMAIN state \cup DOMAIN state') \ {TransferAddressOf(txn'.asset)} :
               SameAt(state, state', a)]_vars

RejectKeepsOwnershipWitness ==
  /\ txn.action = "reject"
  /\ outcome.status = "ok"
  /\ Present(state, AssetAddressOf(txn.asset))
  /\ OwnerAt(state, AssetAddressOf(txn.asset)) # Def(txn.signer)

(***************************************************************************)
(* C5  Accept with no pending transfer, as claimed: when the transfer slot *)
(* is absent or empty, an accept fails with NoPendingTransfer and writes   *)
(* nothing.                                                                *)
(***************************************************************************)
AcceptNoPendingTransfer ==
  [][(txn'.action = "accept" /\ ~Present(state, TransferAddressOf(txn'.asset)))
       => /\ FailsWith(outcome', NoPendingTransfer)
          /\ outcome'.sets = <<>>
          /\ state' = state]_vars

(***************************************************************************)
(* C6  Reject with no pending transfer: when the transfer slot is absent   *)
(* or empty, a reject fails with NoPendingTransfer whoever signs it, and   *)
(* writes nothing.                                                         *)
(***************************************************************************)
RejectNoPendingTransfer ==
  [][(txn'.action = "reject" /\ ~Present(state, TransferAddressOf(txn'.asset)))
       => /\ FailsWith(outcome', NoPendingTransfer)
          /\ outcome'.sets = <<>>
          /\ state' = state]_vars

\* A reject failed on a slot that an accept or a reject had emptied.
RejectNoPendingTransferWitness ==
  /\ txn.action = "reject"
  /\ FailsWith(outcome, NoPendingTransfer)
  /\ TransferAddressOf(txn.asset) \in DOMAIN state
  /\ state[TransferAddressOf(txn.asset)] = EmptyBuffer

(***************************************************************************)
(* C7  Proposed-owner gate: while a transfer is pending, an accept or a    *)
(* reject signed by anyone but its proposed owner fails with               *)
(* NotProposedOwner; the transfer stays as it is and so does the asset     *)
(* record.                                                                 *)
(***************************************************************************)
ProposedOwnerGate ==
  [][(/\ txn'.action \in {"accept", "reject"}
      /\ Present(state, TransferAddressOf(txn'.asset))
      /\ OwnerAt(state, TransferAddressOf(txn'.asset)) # Def(txn'.signer))
       => /\ FailsWith(outcome', IF txn'.action = "accept"
                                 THEN NotProposedOwnerAccept
                                 ELSE NotProposedOwnerReject)
          /\ outcome'.sets = <<>>
          /\ SameAt(state, state', TransferAddressOf(txn'.asset))
          /\ SameAt(state, state', AssetAddressOf(txn'.asset))
          /\ state' = state]_vars

\* An accept by a signer who is not the proposed owner of the pending
\* transfer failed.
ProposedOwnerGateWitness ==
  /\ txn.action = "accept"
  /\ FailsWith(outcome, NotProposedOwnerAccept)
  /\ Present(state, TransferAddressOf(txn.asset))
  /\ OwnerAt(state, TransferAddressOf(txn.asset)) \notin {Undefined, Def(txn.signer)}

(***************************************************************************)
(* C8  Unknown action: a transaction whose action is none of create,       *)
(* transfer, accept, reject fails with UnknownAction; no handler is called *)
(* and the state store is neither read nor written.                        *)
(***************************************************************************)
UnknownActionRejected ==
  [][(txn'.action \notin Actions)
       => /\ FailsWith(outcome', UnknownAction)
          /\ outcome'.handler = "none"
          /\ outcome'.gets = <<>>
          /\ outcome'.sets = <<>>
          /\ state' = state]_vars

\* An action that differs from a known one by its case only was refused.
UnknownActionRejectedWitness ==
  /\ txn.action = "Create"
  /\ FailsWith(outcome, UnknownAction)
  /\ outcome.handler = "none"

(***************************************************************************)
(* C9  Transfer of a missing asset: when the asset address of the          *)
(* registration number is absent or empty, a transfer fails with           *)
(* AssetNotFound for every signer and proposed owner, and writes no        *)
(* transfer record.                                                        *)
(***************************************************************************)
TransferMissingAsset ==
  [][(txn'.action = "transfer" /\ ~Present(state, AssetAddressOf(txn'.asset)))
       => /\ FailsWith(outcome', AssetNotFound)
          /\ outcome'.sets = <<>>
          /\ SameAt(state, state', TransferAddressOf(txn'.asset))
          /\ state' = state]_vars

TransferMissingAssetWitness ==
  /\ txn.action = "transfer"
  /\ FailsWith(outcome, AssetNotFound)
  /\ ~Present(state, AssetAddressOf(txn.asset))

(***************************************************************************)
(* C10  Invariant I1, as claimed, step by step: no record is stored in the *)
(* initial state, and whenever a step stores an asset record or changes    *)
(* the owner of one, the step is a successful create or accept of the      *)
(* asset of that record (the record is at the asset address of the         *)
(* registration number of the request) and the owner is its signer.  Hence *)
(* the owner of every asset record signed the successful create of that    *)
(* asset or a successful accept of a transfer of that asset.               *)
(***************************************************************************)
OwnerHasSigned ==
  /\ \A a \in DOMAIN state : ~IsAssetAddress(a)
  /\ [][\A a \in DOMAIN state' :
          (/\ IsAssetAddress(a)
           /\ Present(state', a)
           /\ (~Present(state, a) \/ OwnerAt(state', a) # OwnerAt(state, a)))
            => /\ outcome'.status = "ok"
               /\ txn'.action \in {"create", "accept"}
               /\ a \in DOMAIN outcome'.sets[1]
               /\ a = AssetAddressOf(txn'.asset)
               /\ OwnerAt(state', a) = Def(txn'.signer)]_vars

(***************************************************************************)
(* C11  Invariant I2, step by step: no transfer record is stored in the    *)
(* initial state; a successful transfer of r leaves a record at the        *)
(* transfer address of r, a successful accept or reject of r finds one     *)
(* there and leaves none, and every other step (a create, a failed         *)
(* request, a request on another registration number) leaves the transfer  *)
(* address of r as it is.  Hence a transfer record is stored for r exactly *)
(* from a successful transfer of r to the next successful accept or reject *)
(* of r.                                                                   *)
(***************************************************************************)
TransferLifecycle ==
  /\ \A a \in DOMAIN state : ~IsTransferAddress(a)
  /\ [][\A a \in {b \in DOMAIN state \cup DOMAIN state' : IsTransferAddress(b)}
               \cup {TransferAddressOf(d) : d \in catalogue} :
          /\ Succeeded(txn', outcome', {"transfer"}, a) => Present(state', a)
          /\ Succeeded(txn', outcome', {"accept", "reject"}, a)
               => Present(state, a) /\ ~Present(state', a)
          /\ ~Succeeded(txn', outcome', {"transfer", "accept", "reject"}, a)
               => SameAt(state, state', a)]_vars

\* A successful accept of one registration number has left the transfer
\* pending for another one.
TransferLifecycleWitness ==
  /\ txn.action = "accept"
  /\ outcome.status = "ok"
  /\ ~Present(state, TransferAddressOf(txn.asset))
  /\ \E d \in catalogue :
       /\ TransferAddressOf(d) # TransferAddressOf(txn.asset)
       /\ Present(state, TransferAddressOf(d))

(***************************************************************************)
(* C12  No partial effects on failure: a transaction that ends in a        *)
(* failure, whatever its action, descriptor, owner and signer and whatever *)
(* the failure, has called state.set not once, and the state store after   *)
(* it is the state store before it.                                        *)
(***************************************************************************)
NoPartialEffects ==
  [][outcome'.status # "ok"
       => /\ outcome'.sets = <<>>
          /\ state' = state]_vars

\* An accept failed where a write was at hand: a transfer was pending, and
\* the store kept it.
NoPartialEffectsWitness ==
  /\ txn.action = "accept"
  /\ outcome.status = "InvalidTransaction"
  /\ Present(state, TransferAddressOf(txn.asset))
  /\ Present(state, AssetAddressOf(txn.asset))

(***************************************************************************)
(* C13  Determinism, as claimed: the outcome of a transaction (its writes, *)
(* or its failure) is the outcome the same transaction has on the same     *)
(* store at any other time of invocation, for each of the four actions.    *)
(***************************************************************************)
Determinism ==
  [][txn'.action \in Actions
       => \A now \in Dates :
            /\ apply(txn', state, now).status = outcome'.status
            /\ apply(txn', state, now).message = outcome'.message
            /\ apply(txn', state, now).sets = outcome'.sets]_vars

(***************************************************************************)
(* C14  Accept atomicity, as claimed: a successful accept of r calls       *)
(* state.set once, with the transfer address of r (emptied) and the asset  *)
(* address of r (the new record) in the one call, so that after the step   *)
(* the slot is empty and the asset record of r names the signer: never is  *)
(* the slot emptied by an accept while the asset record of r names the     *)
(* owner of before, nor the record rewritten while the transfer stays.     *)
(***************************************************************************)
AcceptAtomicity ==
  [][(txn'.action = "accept" /\ outcome'.status = "ok")
       => /\ Len(outcome'.sets) = 1
          /\ TransferAddressOf(txn'.asset) \in DOMAIN outcome'.sets[1]
          /\ AssetAddressOf(txn'.asset) \in DOMAIN outcome'.sets[1]
          /\ ~Present(state', TransferAddressOf(txn'.asset))
          /\ Present(state', AssetAddressOf(txn'.asset))
          /\ OwnerAt(state', AssetAddressOf(txn'.asset)) = Def(txn'.signer)]_vars

(***************************************************************************)
(* C15  Asset records are never deleted, step by step: a successful create *)
(* of r leaves an asset record at the asset address of r, and an asset     *)
(* address that holds an asset record holds one after every step, whatever *)
(* the transaction.  Hence, once a create of r has succeeded, the asset    *)
(* address of r holds a record in every later state.                       *)
(***************************************************************************)
AssetNeverDeleted ==
  [][/\ (txn'.action = "create" /\ outcome'.status = "ok")
          => Present(state', AssetAddressOf(txn'.asset))
     /\ \A a \in DOMAIN state :
          (IsAssetAddress(a) /\ Present(state, a))
            => /\ Present(state', a)
               /\ "name" \in DOMAIN decode(state'[a])]_vars

\* The asset record of r is there after a successful accept and after a
\* successful reject of r.
AssetNeverDeletedWitness ==
  /\ txn.action \in {"accept", "reject"}
  /\ outcome.status = "ok"
  /\ Present(state, AssetAddressOf(txn.asset))
  /\ "name" \in DOMAIN decode(state[AssetAddressOf(txn.asset)])

(***************************************************************************)
(* C16  Transfer is last-writer-wins: while a transfer of r is pending, a  *)
(* transfer of r to C signed by the owner of r succeeds, having read the   *)
(* asset address only, and the transfer address holds the record           *)
(* {asset, owner: C} afterwards.  And in every state, so in the one that   *)
(* transfer leaves, an accept of r signed by the proposed owner of the     *)
(* pending record succeeds, and an accept or a reject of r signed by       *)
(* anyone else (the proposed owner of before, if he is not C) fails with   *)
(* NotProposedOwner.                                                       *)
(***************************************************************************)
LastWriterWins ==
  /\ [][(/\ txn'.action = "transfer"
         /\ Present(state, TransferAddressOf(txn'.asset))
         /\ Present(state, AssetAddressOf(txn'.asset))
         /\ OwnerAt(state, AssetAddressOf(txn'.asset)) = Def(txn'.signer))
          => /\ outcome'.status = "ok"
             /\ outcome'.gets = <<(<<AssetAddressOf(txn'.asset)>>)>>
             /\ state'[TransferAddressOf(txn'.asset)]
                  = encode([asset |-> Def(txn'.asset), owner |-> txn'.owner])
             /\ OwnerAt(state', TransferAddressOf(txn'.asset)) = txn'.owner]_vars
  /\ [](\A d \in catalogue :
          Present(state, TransferAddressOf(d))
            => \A s \in Signers :
                 IF Def(s) = OwnerAt(state, TransferAddressOf(d))
                 THEN \A now \in Dates :
                        apply(Request("accept", d, s), state, now).status = "ok"
                 ELSE /\ \A now \in Dates :
                           FailsWith(apply(Request("accept", d, s), state, now),
                                     NotProposedOwnerAccept)
                      /\ FailsWith(apply(Request("reject", d, s), state, NotRead),
                                   NotProposedOwnerReject))

\* A transfer of r to B is pending, written by the last transaction; the
\* signer of that transaction, the owner of r, transfers r to another
\* C: the transfer succeeds and names C, and B cannot accept any more.
LastWriterWinsWitness ==
  /\ txn.action = "transfer"
  /\ outcome.status = "ok"
  /\ txn.owner # Undefined
  /\ OwnerAt(state, TransferAddressOf(txn.asset)) = txn.owner
  /\ \E c \in Signers :
       /\ Def(c) # txn.owner
       /\ apply([txn EXCEPT !.owner = Def(c)], state, NotRead).status = "ok"
       /\ OwnerAt(applySets(state, apply([txn EXCEPT !.owner = Def(c)],
                                         state, NotRead).sets),
                  TransferAddressOf(txn.asset)) = Def(c)
       /\ FailsWith(apply(Request("accept", txn.asset, txn.owner[1]),
                          applySets(state, apply([txn EXCEPT !.owner = Def(c)],
                                                 state, NotRead).sets),
                          NotRead),
                    NotProposedOwnerAccept)

(***************************************************************************)
(* C17  Accept stores the descriptor of the request, as claimed: the asset *)
(* record a successful accept writes is {name: descriptor, owner: signer}  *)
(* with the descriptor of the request as it was given, and it is written   *)
(* at the asset address of the registration number of that descriptor.     *)
(***************************************************************************)
AcceptStoresDescriptor ==
  [][(txn'.action = "accept" /\ outcome'.status = "ok")
       => /\ AssetAddressOf(txn'.asset) \in DOMAIN outcome'.sets[1]
          /\ outcome'.sets[1][AssetAddressOf(txn'.asset)]
               = encode([name |-> Def(txn'.asset), owner |-> Def(txn'.signer)])
          /\ state'[AssetAddressOf(txn'.asset)]
               = encode([name |-> Def(txn'.asset), owner |-> Def(txn'.signer)])]_vars

(***************************************************************************)
(* C18  Address layout, as claimed: the asset address and the transfer     *)
(* address of every registration number start with the 6 characters of the *)
(* family prefix, carry the tag "00" resp. "01", continue with 62          *)
(* characters of the digest of the registration number, and are 64         *)
(* characters long; so is every address the handlers have set.             *)
(***************************************************************************)
AddressLayout64 ==
  /\ \A d \in catalogue : Layout(RegistrationNumber(d), 64)
  /\ \A a \in DOMAIN state : Len(a) = 64

(***************************************************************************)
(* C18  Address layout, amended: as above, with a total length of 70       *)
(* characters (6 + 2 + 62); every address the handlers have set has the    *)
(* family prefix, the tag "00" or "01" and 70 characters.                  *)
(***************************************************************************)
AddressLayout ==
  /\ \A d \in catalogue : Layout(RegistrationNumber(d), 70)
  /\ \A a \in DOMAIN state :
       /\ Len(a) = 70
       /\ SubSeq(a, 1, 6) = PREFIX
       /\ IsAssetAddress(a) \/ IsTransferAddress(a)

\* The handlers have set both addresses of a registration number.
AddressLayoutWitness ==
  \E d \in catalogue :
    /\ Present(state, AssetAddressOf(d))
    /\ Present(state, TransferAddressOf(d))
    /\ Len(AssetAddressOf(d)) = 70

(***************************************************************************)
(* C19  A pending transfer has an asset: in every reachable state, when a  *)
(* transfer record is stored at the transfer address of a registration     *)
(* number, an asset record is stored at its asset address.                 *)
(***************************************************************************)
PendingHasAsset ==
  /\ \A d \in catalogue :
       Present(state, TransferAddressOf(d)) => Present(state, AssetAddressOf(d))
  /\ \A a \in DOMAIN state :
       (IsTransferAddress(a) /\ Present(state, a))
         => /\ Present(state, AssetAddressFor(a))
            /\ "name" \in DOMAIN decode(state[AssetAddressFor(a)])

\* A transfer is pending for an asset whose record an accept has written.
PendingHasAssetWitness ==
  /\ txn.action = "transfer"
  /\ outcome.status = "ok"
  /\ Present(state, TransferAddressOf(txn.asset))
  /\ Present(state, AssetAddressOf(txn.asset))
  /\ Prop(decode(state[AssetAddressOf(txn.asset)]), "name")
       \notin {Def(d) : d \in catalogue}

(***************************************************************************)
(* C20  Ownership-change rule, as claimed, step by step: when a step       *)
(* changes the owner of the asset record of r from X to Y, the step is a   *)
(* successful accept of r signed by Y, a transfer of r to Y was pending    *)
(* before it and is cleared by it; and a successful transfer of r is       *)
(* signed by the owner of r.  As the owner of r changes only in a step     *)
(* that clears the pending transfer, the transfer an accept finds was      *)
(* written by a transfer that X, still the owner, signed.  In particular   *)
(* no create, transfer or reject changes the owner of a stored record.     *)
(***************************************************************************)
OwnershipChangeRule ==
  [][/\ \A a \in DOMAIN state :
          (/\ IsAssetAddress(a)
           /\ Present(state, a)
           /\ OwnerAt(state', a) # OwnerAt(state, a))
            => /\ txn'.action = "accept"
               /\ outcome'.status = "ok"
               /\ AssetAddressOf(txn'.asset) = a
               /\ OwnerAt(state', a) = Def(txn'.signer)
               /\ Present(state, TransferAddressFor(a))
               /\ OwnerAt(state, TransferAddressFor(a)) = Def(txn'.signer)
               /\ ~Present(state', TransferAddressFor(a))
     /\ (txn'.action = "transfer" /\ outcome'.status = "ok")
          => OwnerAt(state, AssetAddressOf(txn'.asset)) = Def(txn'.signer)]_vars

====
